---- MODULE Spec2Model ----
(***************************************************************************)
(* Model of the Caddy request matcher CronMatcher (cronmatcher.go).        *)
(*                                                                         *)
(* A matcher holds two lists of cron expressions, EnableAt and DisableAt.  *)
(* Provision checks the lists' lengths, Validate checks every expression   *)
(* with gronx.IsValid, UnmarshalCaddyfile appends one pair per `cron`      *)
(* directive, and Match answers whether the current instant lies in the    *)
(* window of any pair.                                                     *)
(*                                                                         *)
(* Instants are integers (one unit = one day at 00:00).  The cron library  *)
(* gronx is not part of the repository: its three entry points are         *)
(* modelled by their documented contract over a small catalogue of         *)
(* expressions.                                                            *)
(***************************************************************************)
EXTENDS Integers, Sequences, FiniteSets, TLC

\* ------------------------------------------------------------------ bounds

\* Queries are made at the instants 0..MaxTime.
MaxTime == 4

\* Days of the model's week: SUN = 0, MON = 1, the others have no rule.
DaysPerWeek == 3

\* Longest EnableAt / DisableAt list of an initial matcher.
MaxPairs == 2

\* Most `cron` directives handed to one UnmarshalCaddyfile call.
MaxDirectives == 2

\* ------------------------------------------------------------ cron library

\* The cron expressions of the model: the empty string, which the syntax
\* check rejects (it has no segments), two weekly schedules, and a schedule
\* limited to one year, which has a single match (the Monday of the first
\* week).
SUN == "0 0 * * SUN"
MON == "0 0 * * MON"
MON2024 == "0 0 * * MON 2024"
Exprs == {"", SUN, MON, MON2024}

\* The instants the library searches when it looks for a tick: one week
\* around the instants a query can name.
Horizon == (0 - DaysPerWeek) .. (MaxTime + 2 * DaysPerWeek)

\* gronx.IsValid: the syntax check.
IsValid(expr) == expr \in {SUN, MON, MON2024}

\* gronx.IsDue: whether the expression matches the instant t.
IsDue(expr, t) ==
    CASE expr = SUN -> t % DaysPerWeek = 0
      [] expr = MON -> t % DaysPerWeek = 1
      [] expr = MON2024 -> t = 1
      [] OTHER -> FALSE

Max(S) == CHOOSE x \in S : \A y \in S : y <= x
Min(S) == CHOOSE x \in S : \A y \in S : x <= y

\* The value returned next to an error.
NoTime == 0 - 1000

\* The ticks PrevTickBefore / NextTickAfter choose among.
TicksBefore(expr, ref, inclRefTime) ==
    {t \in Horizon : IsDue(expr, t) /\ (t < ref \/ (inclRefTime /\ t = ref))}
TicksAfter(expr, ref, inclRefTime) ==
    {t \in Horizon : IsDue(expr, t) /\ (t > ref \/ (inclRefTime /\ t = ref))}

\* gronx.PrevTickBefore(expr, ref, inclRefTime): the latest tick before ref
\* (at ref too when inclRefTime), or an error when the expression is invalid
\* or has no such tick.
PrevTickBefore(expr, ref, inclRefTime) ==
    LET ticks == TicksBefore(expr, ref, inclRefTime)
    IN IF ~IsValid(expr) \/ ticks = {}
       THEN [err |-> TRUE, time |-> NoTime]
       ELSE [err |-> FALSE, time |-> Max(ticks)]

\* gronx.NextTickAfter(expr, ref, inclRefTime): the earliest tick after ref.
NextTickAfter(expr, ref, inclRefTime) ==
    LET ticks == TicksAfter(expr, ref, inclRefTime)
    IN IF ~IsValid(expr) \/ ticks = {}
       THEN [err |-> TRUE, time |-> NoTime]
       ELSE [err |-> FALSE, time |-> Min(ticks)]

\* ------------------------------------------------------------- the matcher

VARIABLES
    EnableAt,      \* cm.EnableAt: the start expressions, one per window
    DisableAt,     \* cm.DisableAt: the end expressions, one per window
    logger,        \* cm.logger is non-nil
    provisionErr,  \* what Provision last returned for this configuration
    validateErr,   \* what Validate last returned for this configuration
    ret,           \* the operation that ran last and what it returned
    probe,         \* an earlier Match call, kept to compare later calls with
    calls          \* the Match calls in progress, one per concurrent request

vars == <<EnableAt, DisableAt, logger, provisionErr, validateErr, ret, probe, calls>>

Time == 0 .. MaxTime

\* Sequences over S of length lo..hi.
SeqsOf(S, lo, hi) == UNION {[1 .. n -> S] : n \in lo .. hi}

\* Errors, as the message that fmt.Errorf / d.Err builds and its arguments.
ErrAtLeastOne == "both 'enable_at' and 'disable_at' must contain at least one cron expression"
ErrSameNumber == "'enable_at' and 'disable_at' must have the same number of cron expressions"
ErrInvalidFormat == "invalid cron format at index"
ErrTwoArgs == "each 'cron' block must have exactly 2 arguments: 'enable_at' and 'disable_at'"
NoIndex == 0 - 1
Error(msg, which, index, expr) ==
    [msg |-> msg, which |-> which, index |-> index, expr |-> expr]
Nil == Error("nil", "", NoIndex, "")
NotCalled == Error("not called", "", NoIndex, "")

\* Mutation of ProvisionResult: the lengths are not compared.
ProvisionResultCountsNotCompared(en, dis) ==
    IF Len(en) = 0 \/ Len(dis) = 0 THEN Error(ErrAtLeastOne, "", NoIndex, "")
    ELSE Nil

\* Mutation of ProvisionResult: the lengths are compared with > instead of
\* !=, so that a longer DisableAt is accepted.
ProvisionResultLongerDisableAt(en, dis) ==
    IF Len(en) = 0 \/ Len(dis) = 0 THEN Error(ErrAtLeastOne, "", NoIndex, "")
    ELSE IF Len(en) > Len(dis) THEN Error(ErrSameNumber, "", NoIndex, "")
    ELSE Nil

\* Provision's checks of the two lists.
ProvisionResult(en, dis) ==
    IF Len(en) = 0 \/ Len(dis) = 0 THEN Error(ErrAtLeastOne, "", NoIndex, "")
    ELSE IF Len(en) # Len(dis) THEN Error(ErrSameNumber, "", NoIndex, "")
    ELSE Nil

\* The 1-based positions of the expressions of a list that IsValid rejects.
Rejected(list) == {k \in 1 .. Len(list) : ~IsValid(list[k])}

\* Mutation of ValidateResult: the DisableAt loop is missing.
ValidateResultEnableOnly(en, dis) ==
    IF Rejected(en) # {}
    THEN Error(ErrInvalidFormat, "enable_at", Min(Rejected(en)) - 1, en[Min(Rejected(en))])
    ELSE Nil

\* Mutation of ValidateResult: the DisableAt loop reports its errors as
\* enable_at errors.
ValidateResultWrongList(en, dis) ==
    IF Rejected(en) # {}
    THEN Error(ErrInvalidFormat, "enable_at", Min(Rejected(en)) - 1, en[Min(Rejected(en))])
    ELSE IF Rejected(dis) # {}
    THEN Error(ErrInvalidFormat, "enable_at", Min(Rejected(dis)) - 1, dis[Min(Rejected(dis))])
    ELSE Nil

\* Validate's two loops: every EnableAt expression first, then every
\* DisableAt expression; the first rejected one is reported with its
\* 0-based index.
ValidateResult(en, dis) ==
    IF Rejected(en) # {}
    THEN Error(ErrInvalidFormat, "enable_at", Min(Rejected(en)) - 1, en[Min(Rejected(en))])
    ELSE IF Rejected(dis) # {}
    THEN Error(ErrInvalidFormat, "disable_at", Min(Rejected(dis)) - 1, dis[Min(Rejected(dis))])
    ELSE Nil

\* Mutation of UnmarshalLoop: the first argument is appended to EnableAt
\* before the number of arguments is checked.
RECURSIVE UnmarshalLoopAppendsBeforeCheck(_, _, _)
UnmarshalLoopAppendsBeforeCheck(en, dis, dirs) ==
    IF dirs = <<>> THEN [en |-> en, dis |-> dis, err |-> Nil]
    ELSE IF Len(Head(dirs)) = 2
    THEN UnmarshalLoopAppendsBeforeCheck(Append(en, Head(dirs)[1]),
                                         Append(dis, Head(dirs)[2]), Tail(dirs))
    ELSE [en |-> IF Len(Head(dirs)) >= 1 THEN Append(en, Head(dirs)[1]) ELSE en,
          dis |-> dis, err |-> Error(ErrTwoArgs, "", NoIndex, "")]

\* UnmarshalCaddyfile's loop over the directives: a directive with two
\* arguments appends a pair, any other stops the loop with an error and
\* leaves what was appended before it.
RECURSIVE UnmarshalLoop(_, _, _)
UnmarshalLoop(en, dis, dirs) ==
    IF dirs = <<>> THEN [en |-> en, dis |-> dis, err |-> Nil]
    ELSE IF Len(Head(dirs)) = 2
    THEN UnmarshalLoop(Append(en, Head(dirs)[1]), Append(dis, Head(dirs)[2]), Tail(dirs))
    ELSE [en |-> en, dis |-> dis, err |-> Error(ErrTwoArgs, "", NoIndex, "")]

\* A log entry of Match: the message, the 0-based pair it is about and the
\* zap fields.
Entry(level, msg, i, now, lastEnable, nextDisable) ==
    [level |-> level, msg |-> msg, i |-> i, now |-> now,
     last_enable |-> lastEnable, next_disable |-> nextDisable]
LogFailedEnable(i, now) ==
    Entry("error", "Failed to compute last enable time", i, now, NoTime, NoTime)
LogFailedDisable(i, now) ==
    Entry("error", "Failed to compute next disable time", i, now, NoTime, NoTime)
LogEvaluating(i, now, le, nd) ==
    Entry("debug", "Evaluating cron schedule", i, now, le, nd)
LogMatches(i, now, le, nd) ==
    Entry("debug", "Request matches within the enable/disable range", i, now, le, nd)
LogNoMatch(now) ==
    Entry("debug", "Request did not match any cron schedule", NoIndex, now, NoTime, NoTime)

\* The start boundary of a pair: the tick of the start expression at or
\* before now.
LastEnable(expr, now) == PrevTickBefore(expr, now, TRUE)

\* Mutation of NextDisable: the end boundary is searched from now.
NextDisableFromNow(expr, lastEnable, now) == NextTickAfter(expr, now, FALSE)

\* Mutation of NextDisable: the search for the end boundary includes the
\* start boundary itself (inclRefTime true instead of false).
NextDisableInclRefTime(expr, lastEnable, now) == NextTickAfter(expr, lastEnable, TRUE)

\* The end boundary of a pair: the tick of the end expression after the
\* start boundary.
NextDisable(expr, lastEnable, now) == NextTickAfter(expr, lastEnable, FALSE)

\* Mutation of InRange: the end boundary is included.
InRangeEndIncluded(now, lastEnable, nextDisable) ==
    now = lastEnable \/ (now > lastEnable /\ now <= nextDisable)

\* Match's test of one pair: now is at or after lastEnable and before
\* nextDisable.
InRange(now, lastEnable, nextDisable) ==
    now = lastEnable \/ (now > lastEnable /\ now < nextDisable)

\* Mutation of MatchLoop: the loop returns false at the first pair that does
\* not match instead of going on.
MatchLoopFirstPairOnly(en, dis, now, i) ==
    IF i > Len(en) THEN [result |-> "false", log |-> <<LogNoMatch(now)>>]
    ELSE LET le == LastEnable(en[i], now) IN
      IF le.err THEN [result |-> "false", log |-> <<LogFailedEnable(i - 1, now)>>]
      ELSE IF i > Len(dis) THEN [result |-> "panic", log |-> <<>>]
      ELSE LET nd == NextDisable(dis[i], le.time, now) IN
        IF nd.err THEN [result |-> "false", log |-> <<LogFailedDisable(i - 1, now)>>]
        ELSE IF InRange(now, le.time, nd.time)
        THEN [result |-> "true",
              log |-> <<LogEvaluating(i - 1, now, le.time, nd.time),
                        LogMatches(i - 1, now, le.time, nd.time)>>]
        ELSE [result |-> "false", log |-> <<LogEvaluating(i - 1, now, le.time, nd.time)>>]

\* Mutation of MatchLoop: an evaluator error ends the query (return false)
\* instead of skipping the pair.
RECURSIVE MatchLoopErrorAborts(_, _, _, _)
MatchLoopErrorAborts(en, dis, now, i) ==
    IF i > Len(en) THEN [result |-> "false", log |-> <<LogNoMatch(now)>>]
    ELSE LET le == LastEnable(en[i], now) IN
      IF le.err THEN [result |-> "false", log |-> <<LogFailedEnable(i - 1, now)>>]
      ELSE IF i > Len(dis) THEN [result |-> "panic", log |-> <<>>]
      ELSE LET nd == NextDisable(dis[i], le.time, now) IN
        IF nd.err THEN [result |-> "false", log |-> <<LogFailedDisable(i - 1, now)>>]
        ELSE IF InRange(now, le.time, nd.time)
        THEN [result |-> "true",
              log |-> <<LogEvaluating(i - 1, now, le.time, nd.time),
                        LogMatches(i - 1, now, le.time, nd.time)>>]
        ELSE LET rest == MatchLoopErrorAborts(en, dis, now, i + 1) IN
             [result |-> rest.result,
              log |-> <<LogEvaluating(i - 1, now, le.time, nd.time)>> \o rest.log]

\* Match's loop from pair i (1-based here) on: the value returned and the
\* entries logged.  Indexing DisableAt past its end panics.
RECURSIVE MatchLoop(_, _, _, _)
MatchLoop(en, dis, now, i) ==
    IF i > Len(en) THEN [result |-> "false", log |-> <<LogNoMatch(now)>>]
    ELSE LET le == LastEnable(en[i], now) IN
      IF le.err
      THEN LET rest == MatchLoop(en, dis, now, i + 1) IN
           [result |-> rest.result, log |-> <<LogFailedEnable(i - 1, now)>> \o rest.log]
      ELSE IF i > Len(dis) THEN [result |-> "panic", log |-> <<>>]
      ELSE LET nd == NextDisable(dis[i], le.time, now) IN
        IF nd.err
        THEN LET rest == MatchLoop(en, dis, now, i + 1) IN
             [result |-> rest.result, log |-> <<LogFailedDisable(i - 1, now)>> \o rest.log]
        ELSE IF InRange(now, le.time, nd.time)
        THEN [result |-> "true",
              log |-> <<LogEvaluating(i - 1, now, le.time, nd.time),
                        LogMatches(i - 1, now, le.time, nd.time)>>]
        ELSE LET rest == MatchLoop(en, dis, now, i + 1) IN
             [result |-> rest.result,
              log |-> <<LogEvaluating(i - 1, now, le.time, nd.time)>> \o rest.log]

\* Match on a matcher: every path logs through cm.logger before it returns,
\* which panics on a nil logger.
MatchResult(en, dis, lg, now) ==
    IF lg THEN MatchLoop(en, dis, now, 1) ELSE [result |-> "panic", log |-> <<>>]

\* -------------------------------------------------- operations, one at a time

\* What an operation returned: its name, the instant it read (Match), the
\* error or the boolean it returned, and what it logged.
Returned(op, now, err, result, log) ==
    [op |-> op, now |-> now, err |-> err, result |-> result, log |-> log]

\* No Match call recorded.
NoProbe == [now |-> NoTime, result |-> "", other |-> FALSE]

\* A request's Match call that has not started.
Idle == [pc |-> "idle", now |-> NoTime, i |-> 0, lastEnable |-> NoTime,
         nextDisable |-> NoTime, result |-> "", evals |-> <<>>]

\* The requests whose Match calls may run at the same time.
Procs == {"request1", "request2"}

\* A matcher as a struct literal or a decoded JSON object builds it: any two
\* lists, no logger yet.
Init ==
    /\ EnableAt \in SeqsOf(Exprs, 0, MaxPairs)
    /\ DisableAt \in SeqsOf(Exprs, 0, MaxPairs)
    /\ logger = FALSE
    /\ provisionErr = NotCalled
    /\ validateErr = NotCalled
    /\ ret = Returned("new", NoTime, Nil, "", <<>>)
    /\ probe = NoProbe
    /\ calls = [p \in Procs |-> Idle]

\* The Info entries Provision logs, one per pair.
ProvisionLog(en, dis) ==
    [k \in 1 .. Len(en) |->
        [level |-> "info", msg |-> "CronMatcher configured", set |-> k,
         EnableAt |-> en[k], DisableAt |-> dis[k]]]

\* Provision: takes the context's logger, then checks the lists.
Provision ==
    /\ logger' = TRUE
    /\ provisionErr' = ProvisionResult(EnableAt, DisableAt)
    /\ ret' = Returned("Provision", NoTime, provisionErr', "",
                       IF provisionErr' = Nil THEN ProvisionLog(EnableAt, DisableAt) ELSE <<>>)
    /\ UNCHANGED <<EnableAt, DisableAt, validateErr, probe, calls>>

\* Validate: checks every expression.
Validate ==
    /\ validateErr' = ValidateResult(EnableAt, DisableAt)
    /\ ret' = Returned("Validate", NoTime, validateErr', "", <<>>)
    /\ UNCHANGED <<EnableAt, DisableAt, logger, provisionErr, probe, calls>>

\* The argument lists a `cron` directive can carry: every pair of two
\* expressions, and lists of zero, one and three arguments.
ArgExprs == {"", SUN, MON}
Directives ==
    [1 .. 2 -> ArgExprs] \cup {<<>>, <<SUN>>, <<SUN, MON, SUN>>}

\* The directive lists handed to UnmarshalCaddyfile: short enough to keep
\* EnableAt and DisableAt within MaxPairs.
Dispensers ==
    UNION {[1 .. n -> Directives] :
           n \in {m \in 1 .. MaxDirectives :
                     Len(EnableAt) + m <= MaxPairs /\ Len(DisableAt) + m <= MaxPairs}}

\* UnmarshalCaddyfile on the directives dirs.  What Provision and Validate
\* returned was about the lists as they were: appending to them forgets it.
UnmarshalCaddyfile(dirs) ==
    LET out == UnmarshalLoop(EnableAt, DisableAt, dirs)
        changed == out.en # EnableAt
    IN /\ EnableAt' = out.en
       /\ DisableAt' = out.dis
       /\ provisionErr' = IF changed THEN NotCalled ELSE provisionErr
       /\ validateErr' = IF changed THEN NotCalled ELSE validateErr
       /\ probe' = IF changed THEN NoProbe ELSE probe
       /\ ret' = Returned("UnmarshalCaddyfile", NoTime, out.err, "", <<>>)
       /\ UNCHANGED <<logger, calls>>

\* Mutation of Match: the matcher forgets a pair once a query has gone
\* through the list (state kept between calls).
MatchForgetsPair(now) ==
    LET out == MatchResult(EnableAt, DisableAt, logger, now)
    IN /\ ret' = Returned("Match", now, Nil, out.result, out.log)
       /\ probe' = IF probe # NoProbe /\ now # probe.now
                   THEN [probe EXCEPT !.other = TRUE] ELSE probe
       /\ EnableAt' = IF out.result = "false" /\ Len(EnableAt) > 1
                      THEN Tail(EnableAt) ELSE EnableAt
       /\ DisableAt' = IF out.result = "false" /\ Len(EnableAt) > 1
                       THEN Tail(DisableAt) ELSE DisableAt
       /\ UNCHANGED <<logger, provisionErr, validateErr, calls>>

\* Match at the instant now that nowFunc returns.  (A caller that kept an
\* earlier answer notes when it has asked about another instant since.)
Match(now) ==
    LET out == MatchResult(EnableAt, DisableAt, logger, now)
    IN /\ ret' = Returned("Match", now, Nil, out.result, out.log)
       /\ probe' = IF probe # NoProbe /\ now # probe.now
                   THEN [probe EXCEPT !.other = TRUE] ELSE probe
       /\ UNCHANGED <<EnableAt, DisableAt, logger, provisionErr, validateErr, calls>>

\* ------------------------------------------- Match, one step of a call at a time

\* A call that panicked: the request ends without a value.
Panicked(c) == [c EXCEPT !.pc = "done", !.result = "panic"]

\* The next iteration of `for i := range cm.EnableAt`.
Continue(c) == [c EXCEPT !.pc = "loop", !.i = c.i + 1]

\* now := nowFunc(): the call reads the clock once and enters the loop.
MatchStart(p, now) ==
    /\ calls[p].pc = "idle"
    /\ calls' = [calls EXCEPT ![p] = [Idle EXCEPT !.pc = "loop", !.now = now]]
    /\ UNCHANGED <<EnableAt, DisableAt, logger, provisionErr, validateErr, ret, probe>>

\* Mutation of MatchEnable: lastEnable is kept in a place all calls share
\* instead of a local variable.
MatchEnableSharedLastEnable(p) ==
    LET c == calls[p]
        le == LastEnable(EnableAt[c.i + 1], c.now)
        called == [c EXCEPT !.evals = Append(c.evals, <<"PrevTickBefore", c.i>>)]
    IN /\ c.pc = "loop"
       /\ c.i < Len(EnableAt)
       /\ calls' = [q \in Procs |->
             IF q = p
             THEN IF le.err
                  THEN IF logger THEN Continue(called) ELSE Panicked(called)
                  ELSE [called EXCEPT !.pc = "disable", !.lastEnable = le.time]
             ELSE IF le.err \/ calls[q].pc = "idle" THEN calls[q]
             ELSE [calls[q] EXCEPT !.lastEnable = le.time]]
       /\ UNCHANGED <<EnableAt, DisableAt, logger, provisionErr, validateErr, ret, probe>>

\* gronx.PrevTickBefore on the start expression of pair i: an error is logged
\* and the loop goes on, a tick is kept in the local lastEnable.
MatchEnable(p) ==
    LET c == calls[p]
        le == LastEnable(EnableAt[c.i + 1], c.now)
        called == [c EXCEPT !.evals = Append(c.evals, <<"PrevTickBefore", c.i>>)]
    IN /\ c.pc = "loop"
       /\ c.i < Len(EnableAt)
       /\ calls' = [calls EXCEPT ![p] =
             IF le.err
             THEN IF logger THEN Continue(called) ELSE Panicked(called)
             ELSE [called EXCEPT !.pc = "disable", !.lastEnable = le.time]]
       /\ UNCHANGED <<EnableAt, DisableAt, logger, provisionErr, validateErr, ret, probe>>

\* gronx.NextTickAfter on the end expression of pair i, from lastEnable: an
\* error is logged and the loop goes on, a tick is kept in the local
\* nextDisable and logged.
MatchDisable(p) ==
    LET c == calls[p]
        nd == NextDisable(DisableAt[c.i + 1], c.lastEnable, c.now)
        called == [c EXCEPT !.evals = Append(c.evals, <<"NextTickAfter", c.i>>)]
    IN /\ c.pc = "disable"
       /\ calls' = [calls EXCEPT ![p] =
             IF c.i >= Len(DisableAt) THEN Panicked(c)
             ELSE IF ~logger THEN Panicked(called)
             ELSE IF nd.err THEN Continue(called)
             ELSE [called EXCEPT !.pc = "test", !.nextDisable = nd.time]]
       /\ UNCHANGED <<EnableAt, DisableAt, logger, provisionErr, validateErr, ret, probe>>

\* Mutation of MatchTest: a matching pair is noted but the loop goes on with
\* the next pair instead of returning (no short-circuit).
MatchTestNoReturn(p) ==
    LET c == calls[p]
    IN /\ c.pc = "test"
       /\ calls' = [calls EXCEPT ![p] =
             IF InRange(c.now, c.lastEnable, c.nextDisable)
             THEN [Continue(c) EXCEPT !.result = "true"]
             ELSE Continue(c)]
       /\ UNCHANGED <<EnableAt, DisableAt, logger, provisionErr, validateErr, ret, probe>>

\* The test of pair i: return true, or go on with the next pair.
MatchTest(p) ==
    LET c == calls[p]
    IN /\ c.pc = "test"
       /\ calls' = [calls EXCEPT ![p] =
             IF InRange(c.now, c.lastEnable, c.nextDisable)
             THEN [c EXCEPT !.pc = "done", !.result = "true"]
             ELSE Continue(c)]
       /\ UNCHANGED <<EnableAt, DisableAt, logger, provisionErr, validateErr, ret, probe>>

\* The loop is over: no pair matched, return false.
MatchExit(p) ==
    LET c == calls[p]
    IN /\ c.pc = "loop"
       /\ c.i >= Len(EnableAt)
       /\ calls' = [calls EXCEPT ![p] =
             IF logger THEN [c EXCEPT !.pc = "done", !.result = "false"]
             ELSE Panicked(c)]
       /\ UNCHANGED <<EnableAt, DisableAt, logger, provisionErr, validateErr, ret, probe>>

\* The request is over; its goroutine can serve another one.
MatchReturn(p) ==
    /\ calls[p].pc = "done"
    /\ calls' = [calls EXCEPT ![p] = Idle]
    /\ UNCHANGED <<EnableAt, DisableAt, logger, provisionErr, validateErr, ret, probe>>

\* ------------------------------------------------------------ specifications

Next ==
    \/ Provision
    \/ Validate
    \/ \E dirs \in Dispensers : UnmarshalCaddyfile(dirs)
    \/ \E now \in Time : Match(now)

Spec == Init /\ [][Next]_vars


\* A matcher that Provision accepted: lists of the same length, not empty,
\* and a logger.
Provisioned(en, dis) ==
    /\ EnableAt = en
    /\ DisableAt = dis
    /\ logger = TRUE
    /\ provisionErr = Nil
    /\ validateErr = NotCalled
    /\ ret = Returned("Provision", NoTime, Nil, "", ProvisionLog(en, dis))
    /\ probe = NoProbe
    /\ calls = [p \in Procs |-> Idle]

InitProvisioned ==
    \E n \in 1 .. MaxPairs :
        \E en \in [1 .. n -> Exprs], dis \in [1 .. n -> Exprs] : Provisioned(en, dis)

\* Queries of a provisioned matcher, one after the other.
NextQuery == \E now \in Time : Match(now)

SpecQuery == InitProvisioned /\ [][NextQuery]_vars

\* The windows of the matchers that are queried again and again, and of
\* those that serve concurrent requests: a weekly window, the rest of the
\* week, and windows whose start or end expression is limited to one year.
Windows == {<<SUN, MON>>, <<MON, SUN>>, <<MON2024, SUN>>, <<SUN, MON2024>>}

InitWindows ==
    \E n \in 1 .. MaxPairs :
        \E ws \in [1 .. n -> Windows] :
            Provisioned([k \in 1 .. n |-> ws[k][1]], [k \in 1 .. n |-> ws[k][2]])

\* The caller keeps the answer of the Match call that just returned, to
\* compare the answers of later calls with it.
Remember ==
    /\ ret.op = "Match"
    /\ probe = NoProbe
    /\ probe' = [now |-> ret.now, result |-> ret.result, other |-> FALSE]
    /\ UNCHANGED <<EnableAt, DisableAt, logger, provisionErr, validateErr, ret, calls>>

\* Repeated queries of a provisioned matcher.
NextRepeat ==
    \/ \E now \in Time : Match(now)
    \/ Remember

SpecRepeat == InitWindows /\ [][NextRepeat]_vars

\* Requests served at the same time by one provisioned matcher.
NextConcurrent ==
    \E p \in Procs :
        \/ \E now \in Time : MatchStart(p, now)
        \/ MatchEnable(p)
        \/ MatchDisable(p)
        \/ MatchTest(p)
        \/ MatchExit(p)
        \/ MatchReturn(p)

SpecConcurrent == InitWindows /\ [][NextConcurrent]_vars

\* A matcher as the module's constructor returns it: no pair, no logger.
InitEmpty ==
    /\ EnableAt = <<>>
    /\ DisableAt = <<>>
    /\ logger = FALSE
    /\ provisionErr = NotCalled
    /\ validateErr = NotCalled
    /\ ret = Returned("new", NoTime, Nil, "", <<>>)
    /\ probe = NoProbe
    /\ calls = [p \in Procs |-> Idle]

\* The Caddyfile adapter fills an empty matcher, one dispenser after the
\* other.
NextUnmarshal == \E dirs \in Dispensers : UnmarshalCaddyfile(dirs)

SpecUnmarshal == InitEmpty /\ [][NextUnmarshal]_vars

\* ------------------------------------------------------------------ claims

\* The window of a pair, said without the library's two searches: t0 is the
\* start boundary of the pair <<s, e>> at now when s matches t0, t0 is not
\* after now and s matches no instant after t0 up to now; t1 is the end
\* boundary when e matches t1, t1 is after t0 and e matches no instant
\* between them.
IsLastStart(s, t0, now) ==
    /\ IsValid(s) /\ IsDue(s, t0) /\ t0 <= now
    /\ ~\E u \in Horizon : t0 < u /\ u <= now /\ IsDue(s, u)
IsNextEnd(e, t0, t1) ==
    /\ IsValid(e) /\ IsDue(e, t1) /\ t0 < t1
    /\ ~\E u \in Horizon : t0 < u /\ u < t1 /\ IsDue(e, u)
PairWindows(s, e, now) ==
    UNION {{<<t0, t1>> : t1 \in {t \in Horizon : IsNextEnd(e, t0, t)}} :
           t0 \in {t \in Horizon : IsLastStart(s, t, now)}}

\* Both evaluator calls of the pair succeed at now.
Evaluable(s, e, now) == PairWindows(s, e, now) # {}

\* now lies in the closed-open window of the pair.
WindowContains(s, e, now) ==
    \E w \in PairWindows(s, e, now) : w[1] <= now /\ now < w[2]

\* The last operation was a Match on a matcher that has a logger.
Queried == ret.op = "Match" /\ logger

\* C1: for a single pair whose two evaluator calls succeed, Match returns
\* true exactly when lastStart <= now < nextEnd; in particular it returns
\* true at an instant the start rule matches, and false at the end boundary
\* and after it.
C1_ClosedOpenWindow ==
    (Queried /\ Len(EnableAt) = 1 /\ Len(DisableAt) = 1
        /\ Evaluable(EnableAt[1], DisableAt[1], ret.now))
    => /\ ret.result \in {"true", "false"}
       /\ ret.result = "true" <=> WindowContains(EnableAt[1], DisableAt[1], ret.now)
       /\ IsDue(EnableAt[1], ret.now) => ret.result = "true"
       /\ \A w \in PairWindows(EnableAt[1], DisableAt[1], ret.now) :
              ret.now >= w[2] => ret.result = "false"

\* C1's case: a query strictly inside the window of a single pair.
C1_Witness ==
    /\ Queried /\ Len(EnableAt) = 1 /\ Len(DisableAt) = 1
    /\ ret.result = "true"
    /\ \E w \in PairWindows(EnableAt[1], DisableAt[1], ret.now) :
           w[1] < ret.now /\ ret.now < w[2]

\* The permutations of 1..n.
Perms(n) == {f \in [1 .. n -> 1 .. n] : \A a, b \in 1 .. n : f[a] = f[b] => a = b}
Permuted(list, f) == [k \in 1 .. Len(list) |-> list[f[k]]]

\* C2: on a provisioned matcher Match returns true if and only if the
\* window of at least one pair contains now, and the same for every
\* permutation of the pairs.
C2_AnyWindow ==
    (ret.op = "Match" /\ provisionErr = Nil)
    => /\ ret.result \in {"true", "false"}
       /\ ret.result = "true" <=>
              \E k \in 1 .. Len(EnableAt) : WindowContains(EnableAt[k], DisableAt[k], ret.now)
       /\ \A f \in Perms(Len(EnableAt)) :
              MatchResult(Permuted(EnableAt, f), Permuted(DisableAt, f), logger, ret.now).result
                  = ret.result

\* C2's case: only the second pair's window contains now.
C2_Witness ==
    /\ ret.op = "Match" /\ provisionErr = Nil /\ Len(EnableAt) = 2
    /\ ret.result = "true"
    /\ Evaluable(EnableAt[1], DisableAt[1], ret.now)
    /\ ~WindowContains(EnableAt[1], DisableAt[1], ret.now)
    /\ WindowContains(EnableAt[2], DisableAt[2], ret.now)

\* The pairs whose evaluator calls both succeed at now, and a list cut down
\* to the positions S.
Evaluables(en, dis, now) == {k \in 1 .. Len(en) : Evaluable(en[k], dis[k], now)}
Nth(S, j) == CHOOSE k \in S : Cardinality({m \in S : m < k}) = j - 1
Only(list, S) == [j \in 1 .. Cardinality(S) |-> list[Nth(S, j)]]

\* C3: on a provisioned matcher a pair whose evaluator call fails counts as
\* not matching and the later pairs are still evaluated: Match returns a
\* boolean, the one it returns on the matcher without the failing pairs.
C3_FailingPairsSkipped ==
    (ret.op = "Match" /\ provisionErr = Nil)
    => LET S == Evaluables(EnableAt, DisableAt, ret.now)
       IN /\ ret.result \in {"true", "false"}
          /\ ret.result =
                 MatchResult(Only(EnableAt, S), Only(DisableAt, S), logger, ret.now).result

\* C3's case: the first pair's start call fails or its end call fails, and
\* a later pair matches.
C3_Witness ==
    /\ ret.op = "Match" /\ provisionErr = Nil /\ Len(EnableAt) = 2
    /\ ~Evaluable(EnableAt[1], DisableAt[1], ret.now)
    /\ IsValid(EnableAt[1]) /\ IsValid(DisableAt[1])
    /\ \E t \in Horizon : IsLastStart(EnableAt[1], t, ret.now)
    /\ ret.result = "true"

\* C4: Provision returns an error exactly when a list is empty or the lists
\* differ in length, and it leaves both lists as they were.
C4_ProvisionChecksLengths ==
    [][ret'.op = "Provision"
       => /\ EnableAt' = EnableAt /\ DisableAt' = DisableAt
          /\ ret'.err # Nil <=>
                 (Len(EnableAt) = 0 \/ Len(DisableAt) = 0 \/ Len(EnableAt) # Len(DisableAt))
          /\ ret'.err = Nil <=>
                 (Len(EnableAt) > 0 /\ Len(DisableAt) > 0 /\ Len(EnableAt) = Len(DisableAt))]_vars

\* C4's case: Provision has refused two lists that are not empty and differ
\* in length.
C4_Witness ==
    /\ ret.op = "Provision" /\ ret.err # Nil
    /\ Len(EnableAt) > 0 /\ Len(DisableAt) > 0 /\ Len(EnableAt) # Len(DisableAt)

\* Construction is Provision, then Validate when Provision returned no
\* error: it is over once one of them has returned an error or both have
\* returned, and it fails with the first error.
HasEmptyRule ==
    \/ \E k \in 1 .. Len(EnableAt) : EnableAt[k] = ""
    \/ \E k \in 1 .. Len(DisableAt) : DisableAt[k] = ""
Constructed ==
    /\ provisionErr # NotCalled
    /\ provisionErr = Nil => validateErr # NotCalled
ConstructionErr == IF provisionErr # Nil THEN provisionErr ELSE validateErr

\* The one error of the code about a missing rule: a `cron` directive that
\* does not carry both expressions.
IsMissingRule(err) == err.msg = ErrTwoArgs

\* C5 as claimed: construction from a list of pairs, one of which has an
\* empty start or end rule, fails with a missing-rule error.
C5_AsClaimed ==
    (HasEmptyRule /\ Len(EnableAt) = Len(DisableAt) /\ Constructed)
    => IsMissingRule(ConstructionErr)

\* C5, amended: with an empty start or end rule at any position, Provision
\* and Validate never both return without error; no missing-rule error is
\* raised: Validate rejects the rule as an invalid cron format, and it is
\* the first error of the construction when Provision accepts the lists.
C5_EmptyRuleRejectedByValidate ==
    HasEmptyRule
    => /\ ~(provisionErr = Nil /\ validateErr = Nil)
       /\ validateErr # NotCalled => validateErr.msg = ErrInvalidFormat
       /\ Constructed => /\ ConstructionErr # Nil
                         /\ ~IsMissingRule(ConstructionErr)
                         /\ provisionErr = Nil => ConstructionErr.expr \notin {SUN, MON, MON2024}

\* C5's case: the second pair's end rule is empty, Provision accepted the
\* lists and Validate returned the error.
C5_Witness ==
    /\ Len(EnableAt) = 2 /\ Len(DisableAt) = 2
    /\ \A k \in 1 .. 2 : EnableAt[k] # ""
    /\ DisableAt[1] # "" /\ DisableAt[2] = ""
    /\ provisionErr = Nil /\ validateErr.msg = ErrInvalidFormat

\* The list an error of Validate names.
ListNamed(which) == IF which = "enable_at" THEN EnableAt ELSE DisableAt

\* C6: Validate returns an error if and only if the syntax check rejects a
\* rule; the error names the list (enable_at or disable_at) and the index of
\* a rejected rule.
C6_ValidateNamesRejectedRule ==
    ret.op = "Validate"
    => /\ ret.err # Nil <=> (Rejected(EnableAt) # {} \/ Rejected(DisableAt) # {})
       /\ ret.err # Nil
          => /\ ret.err.msg = ErrInvalidFormat
             /\ ret.err.which \in {"enable_at", "disable_at"}
             /\ ret.err.index + 1 \in Rejected(ListNamed(ret.err.which))
             /\ ret.err.expr = ListNamed(ret.err.which)[ret.err.index + 1]

\* C6's case: only the second end rule is rejected.
C6_Witness ==
    /\ ret.op = "Validate" /\ Len(EnableAt) = 2
    /\ Rejected(EnableAt) = {} /\ Rejected(DisableAt) = {2}
    /\ ret.err.which = "disable_at" /\ ret.err.index = 1

\* A configuration a matcher may serve: at least one pair, as many end rules
\* as start rules, every rule valid.
ValidConfiguration ==
    /\ Len(EnableAt) >= 1
    /\ Len(EnableAt) = Len(DisableAt)
    /\ Rejected(EnableAt) = {} /\ Rejected(DisableAt) = {}

\* C7 as claimed: a Match occurs only after Provision and Validate have both
\* returned without error.
C7_AsClaimed ==
    ret.op = "Match" => (provisionErr = Nil /\ validateErr = Nil /\ ValidConfiguration)

\* C7, amended: the matcher does not order its operations, Match can be
\* called at any time; but once Provision and Validate have both returned
\* without error for the lists as they are, the configuration is valid, it
\* stays so through Provision, Validate and Match, and every Match runs on
\* it and returns a boolean.
C7_ValidOnceConstructed ==
    (provisionErr = Nil /\ validateErr = Nil)
    => /\ ValidConfiguration
       /\ ret.op = "Match" => ret.result \in {"true", "false"}

\* C7's case: a Match after Provision and Validate both returned no error.
C7_Witness ==
    /\ ret.op = "Match" /\ provisionErr = Nil /\ validateErr = Nil
    /\ Len(EnableAt) = 2

\* C8: Match leaves EnableAt and DisableAt (and the logger) as they were
\* and keeps nothing between calls: whatever calls were made since, a Match
\* at the instant of a remembered call returns what that call returned.
C8_MatchKeepsNoState ==
    [][ret'.op = "Match"
       => /\ EnableAt' = EnableAt /\ DisableAt' = DisableAt /\ logger' = logger
          /\ (probe # NoProbe /\ probe.now = ret'.now) => ret'.result = probe.result]_vars

\* C8's case: a call was remembered, a call at another instant followed,
\* and the last call is again at the remembered instant.
C8_Witness ==
    /\ ret.op = "Match" /\ probe # NoProbe /\ probe.other
    /\ ret.now = probe.now /\ ret.result = "true"
    /\ Len(EnableAt) = 2

\* C9: whatever the interleaving of the steps of concurrent Match calls, a
\* step of a call writes nothing but that call's own locals (not the lists,
\* not the logger, not another call's locals), and a call that returns
\* returns what Match returns when run alone at the instant the call read.
C9_ConcurrentCallsIndependent ==
    [][/\ EnableAt' = EnableAt /\ DisableAt' = DisableAt /\ logger' = logger
       /\ \A p, q \in Procs : (p # q /\ calls'[p] # calls[p]) => calls'[q] = calls[q]
       /\ \A p \in Procs :
              calls'[p].pc = "done"
              => calls'[p].result =
                     MatchResult(EnableAt, DisableAt, logger, calls'[p].now).result]_vars

\* C9's case: a call has returned true while another call, made at another
\* instant, is between its two evaluator calls.
C9_Witness ==
    \E p, q \in Procs :
        /\ p # q
        /\ calls[p].pc = "done" /\ calls[p].result = "true" /\ calls[p].i = 1
        /\ calls[q].pc = "disable" /\ calls[q].now # calls[p].now
        /\ calls[q].lastEnable # calls[p].lastEnable

\* C10: in every pair evaluation whose two calls succeed, lastEnable is the
\* start-rule match at or before now and nextDisable is the first end-rule
\* match after lastEnable (wherever now is), so lastEnable <= now and
\* lastEnable < nextDisable; and a pair is reported as matching only before
\* that end-rule match.
C10_EndAnchoredAtStart ==
    ret.op = "Match"
    => \A k \in 1 .. Len(ret.log) :
           LET e == ret.log[k] IN
           /\ e.msg = "Evaluating cron schedule"
              => /\ e.now = ret.now
                 /\ IsLastStart(EnableAt[e.i + 1], e.last_enable, ret.now)
                 /\ IsNextEnd(DisableAt[e.i + 1], e.last_enable, e.next_disable)
                 /\ e.last_enable <= ret.now
                 /\ e.last_enable < e.next_disable
           /\ e.msg = "Request matches within the enable/disable range"
              => /\ ret.result = "true"
                 /\ WindowContains(EnableAt[e.i + 1], DisableAt[e.i + 1], ret.now)
                 /\ ret.now < e.next_disable

\* C10's case: the Sunday-to-Monday window queried on a Tuesday: the end
\* boundary is the Monday before now, and the pair does not match.
C10_Witness ==
    /\ ret.op = "Match" /\ provisionErr = Nil
    /\ EnableAt = <<SUN>> /\ DisableAt = <<MON>>
    /\ ret.now % DaysPerWeek = 2
    /\ ret.result = "false"
    /\ \E k \in 1 .. Len(ret.log) :
           /\ ret.log[k].msg = "Evaluating cron schedule"
           /\ ret.log[k].next_disable < ret.now

\* The rule r matches before now and after now, but not at now: now lies
\* strictly between two consecutive matches of r.
BetweenMatches(r, now) ==
    /\ IsValid(r) /\ ~IsDue(r, now)
    /\ \E a \in Horizon : a < now /\ IsDue(r, a)
    /\ \E b \in Horizon : now < b /\ IsDue(r, b)

\* The pairs (1-based) whose start rule and end rule are the same string.
IdenticalPairs == {k \in 1 .. Len(EnableAt) : k <= Len(DisableAt) /\ EnableAt[k] = DisableAt[k]}

\* C11 as claimed: a pair whose start rule and end rule are identical has
\* windows of zero duration: Match does not report as inside its window an
\* instant strictly between two consecutive matches of the rule.
C11_AsClaimed ==
    (ret.op = "Match" /\ provisionErr = Nil)
    => \A k \in 1 .. Len(ret.log) :
           LET e == ret.log[k] IN
           (e.msg = "Request matches within the enable/disable range"
               /\ e.i + 1 \in IdenticalPairs)
           => ~BetweenMatches(EnableAt[e.i + 1], ret.now)

\* C11, amended: a pair whose start rule and end rule are identical has
\* windows that last from one match of the rule to the next: whenever such
\* a pair is evaluated and both its calls succeed, its boundaries are two
\* consecutive matches of the rule around now and the pair is reported as
\* matching; so Match returns true at every instant for which the rule has a
\* match at or before it and a match after it, the instants strictly
\* between two matches included.
C11_IdenticalRulesWholePeriod ==
    (ret.op = "Match" /\ provisionErr = Nil)
    => /\ \A k \in 1 .. Len(ret.log) :
              LET e == ret.log[k] IN
              (e.msg = "Evaluating cron schedule" /\ e.i + 1 \in IdenticalPairs)
              => /\ IsDue(EnableAt[e.i + 1], e.last_enable)
                 /\ IsDue(EnableAt[e.i + 1], e.next_disable)
                 /\ ~\E u \in Horizon : /\ e.last_enable < u /\ u < e.next_disable
                                         /\ IsDue(EnableAt[e.i + 1], u)
                 /\ e.last_enable <= ret.now /\ ret.now < e.next_disable
                 /\ k < Len(ret.log)
                 /\ ret.log[k + 1] =
                        LogMatches(e.i, ret.now, e.last_enable, e.next_disable)
       /\ \A i \in IdenticalPairs :
              Evaluable(EnableAt[i], DisableAt[i], ret.now) => ret.result = "true"
       /\ \A i \in IdenticalPairs :
              BetweenMatches(EnableAt[i], ret.now) => ret.result = "true"

\* C11's case: a single pair with identical rules, queried strictly between
\* two consecutive matches of the rule, and reported as matching.
C11_Witness ==
    /\ ret.op = "Match" /\ provisionErr = Nil
    /\ Len(EnableAt) = 1 /\ IdenticalPairs = {1}
    /\ BetweenMatches(EnableAt[1], ret.now)
    /\ ret.result = "true"
    /\ \E k \in 1 .. Len(ret.log) :
           /\ ret.log[k].msg = "Request matches within the enable/disable range"
           /\ ret.log[k].last_enable < ret.now

\* How far a Match call has come: three steps per pair (start call, end
\* call, test), the pairs in order.
PcRank(pc) ==
    CASE pc = "loop" -> 0 [] pc = "disable" -> 1 [] pc = "test" -> 2 [] OTHER -> 3
Progress(c) == 3 * c.i + PcRank(c.pc)

\* The evaluator calls c has made so far are in configuration order: the
\* start-rule calls are for the pairs 0, 1, 2, ... without a gap or a
\* repetition, and an end-rule call comes right after the start-rule call of
\* the same pair, which succeeded.
EvalsInOrder(c) ==
    \A a \in 1 .. Len(c.evals) :
        LET ev == c.evals[a] IN
        /\ ev[1] \in {"PrevTickBefore", "NextTickAfter"}
        /\ ev[2] \in 0 .. Len(EnableAt) - 1
        /\ ev[1] = "PrevTickBefore"
           => ev[2] = Cardinality({b \in 1 .. a - 1 : c.evals[b][1] = "PrevTickBefore"})
        /\ ev[1] = "NextTickAfter"
           => /\ a > 1
              /\ c.evals[a - 1] = <<"PrevTickBefore", ev[2]>>
              /\ ~LastEnable(EnableAt[ev[2] + 1], c.now).err

\* The calls c has made for the pair k (0-based).
EvalsOf(c, k) == {a \in 1 .. Len(c.evals) : c.evals[a][2] = k}

\* What holds of a Match call c at every step.
OnePass(c) ==
    /\ EvalsInOrder(c)
    /\ c.i \in 0 .. Len(EnableAt)
    /\ \A k \in 0 .. Len(EnableAt) - 1 :
           /\ Cardinality(EvalsOf(c, k)) <= 2
           /\ k > c.i => EvalsOf(c, k) = {}
           /\ k < c.i => /\ EvalsOf(c, k) # {}
                         /\ ~WindowContains(EnableAt[k + 1], DisableAt[k + 1], c.now)
    /\ Len(c.evals) <= 2 * Len(EnableAt)
    /\ (c.pc = "done" /\ c.result = "true")
       => /\ c.i < Len(EnableAt)
          /\ WindowContains(EnableAt[c.i + 1], DisableAt[c.i + 1], c.now)
          /\ Len(c.evals) >= 2
          /\ c.evals[Len(c.evals)] = <<"NextTickAfter", c.i>>
    /\ (c.pc = "done" /\ c.result = "false") => c.i = Len(EnableAt)
    /\ c.pc = "done" => c.result \in {"true", "false"}

\* A step of a running Match call goes forward in the pass over the pairs
\* and makes at most one evaluator call, added after the earlier ones.
OneStep(c, d) ==
    (d # c /\ c.pc \notin {"idle", "done"})
    => /\ Progress(d) > Progress(c)
       /\ Progress(d) <= 3 * Len(EnableAt) + 3
       /\ d.now = c.now
       /\ \/ d.evals = c.evals
          \/ /\ Len(d.evals) = Len(c.evals) + 1
             /\ SubSeq(d.evals, 1, Len(c.evals)) = c.evals
             /\ d.evals[Len(d.evals)][2] = c.i

\* C12: a Match call evaluates the pairs in configuration order with at
\* most two evaluator calls per pair, the end-rule call only after the
\* start-rule call succeeded; it goes past a pair only when that pair does
\* not match and returns true at the first matching pair with no evaluator
\* call for a later pair; every step goes forward, so that the call ends
\* after at most one pass over the pairs.
C12_OnePassShortCircuit ==
    /\ [](\A p \in Procs : calls[p].pc # "idle" => OnePass(calls[p]))
    /\ [][\A p \in Procs : OneStep(calls[p], calls'[p])]_vars

\* C12's case: a call returned true at the first of two pairs after two
\* evaluator calls, none of them for the second pair; and a call whose
\* first pair's start-rule call failed went on to the second pair.
C12_Witness ==
    /\ Len(EnableAt) = 2
    /\ \E p, q \in Procs :
           /\ p # q
           /\ calls[p].pc = "done" /\ calls[p].result = "true" /\ calls[p].i = 0
           /\ calls[p].evals = <<<<"PrevTickBefore", 0>>, <<"NextTickAfter", 0>>>>
           /\ calls[q].pc = "done" /\ calls[q].result = "true" /\ calls[q].i = 1
           /\ calls[q].evals =
                  <<<<"PrevTickBefore", 0>>, <<"PrevTickBefore", 1>>, <<"NextTickAfter", 1>>>>

\* The directives of dirs that do not carry exactly two arguments, and the
\* number of directives before the first of them (all of them when there is
\* none): the accepted directives.
WrongCount(dirs) == {k \in 1 .. Len(dirs) : Len(dirs[k]) # 2}
Accepted(dirs) ==
    IF WrongCount(dirs) = {} THEN Len(dirs)
    ELSE Cardinality({k \in 1 .. Len(dirs) : \A j \in WrongCount(dirs) : k < j})

\* The step is an UnmarshalCaddyfile call on dirs that leaves the k-th
\* accepted directive's arguments at the k-th new position of the two
\* lists, keeps what the lists held, appends nothing else, and returns an
\* error exactly when a directive has a wrong number of arguments.
AppendsAccepted(dirs) ==
    /\ Len(EnableAt') = Len(EnableAt) + Accepted(dirs)
    /\ Len(DisableAt') = Len(DisableAt) + Accepted(dirs)
    /\ \A k \in 1 .. Len(EnableAt) : EnableAt'[k] = EnableAt[k]
    /\ \A k \in 1 .. Len(DisableAt) : DisableAt'[k] = DisableAt[k]
    /\ \A k \in 1 .. Accepted(dirs) :
           /\ EnableAt'[Len(EnableAt) + k] = dirs[k][1]
           /\ DisableAt'[Len(DisableAt) + k] = dirs[k][2]
    /\ ret'.op = "UnmarshalCaddyfile"
    /\ ret'.err # Nil <=> WrongCount(dirs) # {}
    /\ ret'.err # Nil => ret'.err.msg = ErrTwoArgs
    /\ logger' = logger

\* C13: starting from an empty matcher, EnableAt and DisableAt always have
\* the same length, and every UnmarshalCaddyfile call appends the arguments
\* of its k-th accepted directive at the k-th position after the pairs the
\* matcher held (at index k of both lists when it was empty); a directive
\* with another number of arguments than two makes the call return an
\* error, and the pairs of the directives before it stay in the matcher.
C13_DirectivesAppendedInOrder ==
    /\ [](Len(EnableAt) = Len(DisableAt))
    /\ [][\A dirs \in Dispensers : UnmarshalCaddyfile(dirs) => AppendsAccepted(dirs)]_vars

\* C13's case: a call has returned the argument-count error and the matcher
\* holds the pair of the directive accepted before, first argument in
\* EnableAt and second in DisableAt.
C13_Witness ==
    /\ ret.op = "UnmarshalCaddyfile"
    /\ ret.err.msg = ErrTwoArgs
    /\ EnableAt = <<MON>> /\ DisableAt = <<SUN>>

====
